---- MODULE Spec2Model ----
(***************************************************************************)
(* EventBusService (projects/angular-libs/event-bus/src/lib/event-bus.ts,  *)
(* the injector-capturing revision, lines 306-640) as a state machine.     *)
(*                                                                         *)
(* The service keeps two maps: events (key -> writable signal holding      *)
(* NOT_EMITTED or the last BusEvent) and effects (registry key -> list of  *)
(* EffectRef).  Subscriptions are Angular effects.  The reactive runtime   *)
(* is modelled by what it guarantees: an effect is scheduled (dirty) when  *)
(* it is created and whenever a signal it read in its last run is set; a   *)
(* flush runs the dirty effects one after the other, each run atomic; a    *)
(* destroyed effect never runs.  The order of the dirty effects inside a   *)
(* flush differs between runtime versions (scheduling order, creation      *)
(* order) and is left open.                                                *)
(***************************************************************************)
EXTENDS Integers, Sequences, FiniteSets, TLC

\* ------------------------------------------------------------------ bounds
MaxSubs == 2
MaxEmits == 3
MaxTime == 1

\* ------------------------------------------------------------- input sets
Keys == {"login", "logout", "expire"}
SubKeys == {"login", "logout"}
\* JS undefined as a payload, and one proper payload.
Undefined == 0
Payloads == {Undefined, 1}
Transforms == {"none", "plus10"}
\* unsubscribeOn tokens: none, one event key, a list of event keys.
Tokens == {<<>>, <<"logout">>, <<"logout", "expire">>}
\* the unsubscribeOn token that is a Signal (neither a DestroyRef nor keys)
FlagToken == <<"signal">>
\* the unsubscribeOn token that has an onDestroy function
DestroyToken == <<"destroyRef">>
\* what the user callback does when invoked
Callbacks == {"ok", "throw", "reject"}
OnceCallbacks == {"ok", "emit"}
SourceLists == {<<[key |-> "login", transform |-> "none"],
                  [key |-> "logout", transform |-> "plus10"]>>}

\* the optional injector argument of the constructor (Null: not given) and
\* the injection context the constructor runs in: none, one in which no
\* EnvironmentInjector can be injected, one with an EnvironmentInjector
Null == "null"
Thrown == "thrown"
InjectorArgs == {Null, "arg"}
Contexts == {"none", "withoutInjector", "withInjector"}

Subs == 1..MaxSubs
EffIds == {"main", "track"} \X Subs

VARIABLES
    events,       \* this.events: key -> NOT_EMITTED or the last BusEvent
    effects,      \* this.effects: registry key -> sequence of effect ids
    effState,     \* runtime: effect id -> "none" | "dirty" | "clean" | "destroyed"
    subs,         \* closure variables of every on/once/combineLatest call, and
                  \* observations: calledAt / activeAt, the number of emissions
                  \* when the call was made / when its main effect first ran;
                  \* handleAt, the number of callback invocations when the
                  \* handle was first invoked; clearedAt, the number of
                  \* emissions when clearSubscriptions() was first called
                  \* after the call (-1: not yet); unsubAt, the same for
                  \* unsubscribe(key) with the key of the subscription,
                  \* where that call is observed; tornDown, ngOnDestroy()
                  \* was called after the call; unsubscribeOn, the option
                  \* of that name given to once(); flagAt, the number of
                  \* emissions when the flag was first set truthy after the
                  \* call
    emits,        \* observation: every event set by emit, in order
    calls,        \* observation: per subscription, what its user callback received
    reported,     \* console.error calls, per subscription
    pendingRej,   \* rejected callback promises whose catch handler has not run yet
    now,          \* Date.now() when the clock was last read
    flushing,     \* the runtime is inside a flush (dirty effects left to run)
    signalWrites, \* the runtime allows signal writes inside effects
    host,         \* what the engine was constructed with: the injector
                  \* argument and the injection context of the call
    injector,     \* this.injector, or Thrown when the constructor threw
    flag,         \* the value of the user's boolean signal given to on() as
                  \* unsubscribeOn
    destroyRef    \* the DestroyRef given to on() as unsubscribeOn: destroyed,
                  \* whether its lifecycle has ended; callbacks, the
                  \* subscriptions whose removeBoth is registered with it;
                  \* for the properties: endedAt, the number of emissions
                  \* when it ended; ran, the subscriptions whose callback it
                  \* invoked; noop, those of them unsubscribed before
                  ,
    injectorDestroyed  \* the injector this.injector refers to was destroyed
                       \* (the engine was destroyed together with it)

vars == <<events, effects, effState, subs, emits, calls, reported, pendingRej,
          now, flushing, signalWrites, host, injector, flag, destroyRef, injectorDestroyed>>

\* private readonly NOT_EMITTED = Symbol('NOT_EMITTED'): distinct from every event.
NOT_EMITTED == [key |-> "", payload |-> 0, timestamp |-> -1, n |-> 0]

\* registry keys (strings in the code): the event key itself, and the unique
\* "__track__:...:<now>:<random>" and "__combine__:...:<now>:<random>" keys.
EventKey(k) == <<"event", k, 0>>
TrackKey(s) == <<"__track__", "", s>>
CombineKey(s) == <<"__combine__", "", s>>

NoSub == [kind |-> "none", key |-> "", transform |-> "none", token |-> <<>>,
          sources |-> <<>>, cb |-> "ok", state |-> "none",
          removeMain |-> FALSE, removeTracker |-> FALSE,
          destroyedBeforeCreate |-> FALSE, initial |-> <<>>,
          calledAt |-> 0, activeAt |-> -1, handleAt |-> -1, clearedAt |-> -1,
          unsubAt |-> -1, tornDown |-> FALSE, unsubscribeOn |-> <<>>,
          flagAt |-> -1]

\* the mutable part of the state the operations below transform
World == [events |-> events, effects |-> effects, effState |-> effState,
          subs |-> subs, emits |-> emits, calls |-> calls,
          reported |-> reported, pendingRej |-> pendingRej]

Set(w) ==
    /\ events' = w.events
    /\ effects' = w.effects
    /\ effState' = w.effState
    /\ subs' = w.subs
    /\ emits' = w.emits
    /\ calls' = w.calls
    /\ reported' = w.reported
    /\ pendingRej' = w.pendingRej

\* a transform option applied to a payload ("none": no transform given)
Transform(tr, p) == IF tr = "plus10" THEN p + 10 ELSE p

\* ------------------------------------------------------- reactive runtime
\* signals an effect read in its last run (its dependencies)
SourceKeys(sources) == {sources[i].key : i \in 1..Len(sources)}

Deps(w, e) ==
    LET sub == w.subs[e[2]] IN
    IF e[1] = "track"
    THEN IF sub.token \in {FlagToken, DestroyToken} THEN {}
         ELSE {sub.token[i] : i \in {j \in 1..Len(sub.token) : sub.initial[j] = NOT_EMITTED}}
    ELSE IF sub.kind = "combine" THEN SourceKeys(sub.sources)
    ELSE {sub.key}

\* effect(fn): the new effect is scheduled for its first run
createEffect(w, e) == [w EXCEPT !.effState[e] = "dirty"]

\* EffectRef.destroy(): the effect never runs again; destroying twice is allowed
destroy(w, e) == [w EXCEPT !.effState[e] = "destroyed"]

\* WritableSignal.set(v) on the cell of k: store, and schedule every live
\* effect that depends on the cell
set(w, k, v) ==
    [w EXCEPT !.events[k] = v,
              !.effState = [e \in EffIds |->
                  IF @[e] = "clean" /\ k \in Deps(w, e) THEN "dirty" ELSE @[e]]]

AnyDirty(es) == \E e \in EffIds : es[e] = "dirty"

\* ------------------------------------------------------------ the service
\* constructor without the test of this.injector
constructorNoInjectorTest(arg, context) ==
    IF arg = Null /\ context = "none"
    THEN [injector |-> Thrown, events |-> <<>>, effects |-> <<>>]
    ELSE LET injected == IF arg # Null THEN arg
                         ELSE IF context = "withInjector" THEN "env" ELSE Null
         IN [injector |-> injected, events |-> <<>>, effects |-> <<>>]

\* constructor(injector?): injector ?? inject(EnvironmentInjector, {optional:
\* true}), and a throw when that is null.  inject() itself throws when it is
\* called outside an injection context.  The maps start empty.
constructor(arg, context) ==
    IF arg = Null /\ context = "none"
    THEN [injector |-> Thrown, events |-> <<>>, effects |-> <<>>]
    ELSE LET injected == IF arg # Null THEN arg
                         ELSE IF context = "withInjector" THEN "env" ELSE Null
         IN IF injected = Null
            THEN [injector |-> Thrown, events |-> <<>>, effects |-> <<>>]
            ELSE [injector |-> injected, events |-> <<>>, effects |-> <<>>]

\* getSignal(key): the cell, created holding NOT_EMITTED on first access
getSignal(w, k) ==
    IF k \in DOMAIN w.events THEN w
    ELSE [w EXCEPT !.events = (k :> NOT_EMITTED) @@ w.events]

\* addEffect(key, effect), the registration part
addEffect(w, rk, e) ==
    [w EXCEPT !.effects =
        IF rk \in DOMAIN @ THEN [@ EXCEPT ![rk] = Append(@, e)]
        ELSE (rk :> <<e>>) @@ @]

\* indexOf / splice(index, 1)
IndexOf(l, e) ==
    IF \E i \in 1..Len(l) : l[i] = e
    THEN CHOOSE i \in 1..Len(l) : l[i] = e /\ \A j \in 1..(i - 1) : l[j] # e
    ELSE 0

Splice(l, i) == [j \in 1..(Len(l) - 1) |-> IF j < i THEN l[j] ELSE l[j + 1]]

MapDelete(m, k) == [x \in DOMAIN m \ {k} |-> m[x]]

\* removeEffect without the index > -1 test: splice(-1, 1) takes the last
\* element out
removeEffectNoIndexTest(w, rk, e) ==
    LET w1 == [w EXCEPT !.effState[e] = "destroyed"] IN
    IF rk \in DOMAIN w1.effects
    THEN LET l == w1.effects[rk]
             i == IndexOf(l, e)
             l2 == IF i > 0 THEN Splice(l, i) ELSE SubSeq(l, 1, Len(l) - 1)
         IN [w1 EXCEPT !.effects =
                IF Len(l2) = 0 THEN MapDelete(@, rk) ELSE [@ EXCEPT ![rk] = l2]]
    ELSE w1

\* the closure addEffect returns: destroy the effect, take it out of the list
\* of its key, and drop the key when the list is empty
removeEffect(w, rk, e) ==
    LET w1 == destroy(w, e) IN
    IF rk \in DOMAIN w1.effects
    THEN LET l == w1.effects[rk]
             i == IndexOf(l, e)
             l2 == IF i > 0 THEN Splice(l, i) ELSE l
         IN [w1 EXCEPT !.effects =
                IF Len(l2) = 0 THEN MapDelete(@, rk) ELSE [@ EXCEPT ![rk] = l2]]
    ELSE w1

\* emit that writes the new BusEvent into every cell
emitEveryCell(w, k, p, t) ==
    LET event == [key |-> k, payload |-> p, timestamp |-> t, n |-> Len(w.emits) + 1]
        w1 == getSignal(w, k)
    IN [w1 EXCEPT !.events = [c \in DOMAIN @ |-> event],
                  !.emits = Append(@, event),
                  !.effState = [e \in EffIds |->
                      IF @[e] = "clean" THEN "dirty" ELSE @[e]]]

\* emit(key, payload) at time t: a new BusEvent written into the cell
\* (n numbers the emissions; it is not a field of the BusEvent)
emit(w, k, p, t) ==
    LET event == [key |-> k, payload |-> p, timestamp |-> t, n |-> Len(w.emits) + 1]
        w1 == getSignal(w, k)
    IN [set(w1, k, event) EXCEPT !.emits = Append(@, event)]

\* what latest() and onToSignal() return for a key that has not emitted
Absent == [key |-> "undefined", payload |-> 0, timestamp |-> -1, n |-> 0]
\* latest with a truthiness test on the payload in place of the sentinel test
latestByPayload(ev, k) ==
    LET signalValue == IF k \in DOMAIN ev THEN ev[k] ELSE NOT_EMITTED
    IN IF signalValue = NOT_EMITTED \/ signalValue.payload = Undefined
       THEN Absent ELSE signalValue

\* latest(key) on the cells ev: the event, or absent
latest(ev, k) ==
    LET signalValue == IF k \in DOMAIN ev THEN ev[k] ELSE NOT_EMITTED
    IN IF signalValue = NOT_EMITTED THEN Absent ELSE signalValue

\* combineLatestToSignal with values.every in place of values.some
combineLatestToSignalEvery(ev, sources) ==
    LET values == [i \in 1..Len(sources) |->
                      IF sources[i].key \in DOMAIN ev THEN ev[sources[i].key]
                      ELSE NOT_EMITTED]
    IN IF \A i \in 1..Len(values) : values[i] = NOT_EMITTED
       THEN [defined |-> FALSE, value |-> <<>>]
       ELSE [defined |-> TRUE,
             value |-> [i \in 1..Len(values) |->
                          Transform(sources[i].transform, values[i].payload)]]

\* combineLatestToSignal(sources) read on the cells ev
combineLatestToSignal(ev, sources) ==
    LET values == [i \in 1..Len(sources) |->
                      IF sources[i].key \in DOMAIN ev THEN ev[sources[i].key]
                      ELSE NOT_EMITTED]
    IN IF \E i \in 1..Len(values) : values[i] = NOT_EMITTED
       THEN [defined |-> FALSE, value |-> <<>>]
       ELSE [defined |-> TRUE,
             value |-> [i \in 1..Len(values) |->
                          Transform(sources[i].transform, values[i].payload)]]

\* onToSignal that forgets the transform
onToSignalRawPayload(ev, k, tr) ==
    LET value == IF k \in DOMAIN ev THEN ev[k] ELSE NOT_EMITTED
    IN IF value = NOT_EMITTED THEN Undefined ELSE value.payload

\* onToSignal(key, {transform}) read on the cells ev: undefined, or the
\* (transformed) payload of the event in the cell
onToSignal(ev, k, tr) ==
    LET value == IF k \in DOMAIN ev THEN ev[k] ELSE NOT_EMITTED
    IN IF value = NOT_EMITTED THEN Undefined ELSE Transform(tr, value.payload)

\* resetEvent(key): the cell of the key is written back to NOT_EMITTED
\* (a signal set to the value it holds notifies nobody); the registry is not
\* touched
resetEvent(w, k) ==
    IF k \in DOMAIN w.events /\ w.events[k] # NOT_EMITTED
    THEN set(w, k, NOT_EMITTED) ELSE w

\* resetAllEvents(): the same for every known key
resetAllEvents(w) ==
    LET changed == {k \in DOMAIN w.events : w.events[k] # NOT_EMITTED} IN
    [w EXCEPT !.events = [k \in DOMAIN @ |-> NOT_EMITTED],
              !.effState = [e \in EffIds |->
                  IF @[e] = "clean" /\ Deps(w, e) \cap changed # {}
                  THEN "dirty" ELSE @[e]]]

\* removeMain of subscription s: the closure addEffect(keyStr, effRef) returned
removeMain(w, s) == removeEffect(w, EventKey(w.subs[s].key), <<"main", s>>)

\* removeTracker of subscription s: the closure addEffect(effectKey, eff) returned
removeTracker(w, s) == removeEffect(w, TrackKey(s), <<"track", s>>)

\* removeBoth that leaves the main effect alone
removeBothTrackerOnly(w, s) ==
    IF w.subs[s].removeTracker THEN removeTracker(w, s) ELSE w

\* removeBoth: removeMain?.(); removeTracker?.()
removeBoth(w, s) ==
    LET w1 == IF w.subs[s].removeMain THEN removeMain(w, s) ELSE w
    IN IF w1.subs[s].removeTracker THEN removeTracker(w1, s) ELSE w1

\* the unsubscribe closure of on() without the destroyedBeforeCreate note
unsubscribeOnForgetsEarly(w, s) ==
    LET w1 == IF w.subs[s].removeMain THEN removeMain(w, s) ELSE w
    IN IF w1.subs[s].removeTracker
       THEN [removeTracker(w1, s) EXCEPT !.subs[s].removeTracker = FALSE]
       ELSE w1

\* the unsubscribe closure on() returns
unsubscribeOn(w, s) ==
    LET w1 == IF w.subs[s].removeMain THEN removeMain(w, s)
              ELSE [w EXCEPT !.subs[s].destroyedBeforeCreate = TRUE]
    IN IF w1.subs[s].removeTracker
       THEN [removeTracker(w1, s) EXCEPT !.subs[s].removeTracker = FALSE]
       ELSE w1

\* a closure of combineLatest() that destroys and forgets every effect
unsubscribeCombineEverything(w, s) ==
    [w EXCEPT !.effState = [e \in EffIds |->
                  IF \E rk \in DOMAIN w.effects :
                        \E i \in 1..Len(w.effects[rk]) : w.effects[rk][i] = e
                  THEN "destroyed" ELSE @[e]],
              !.effects = <<>>]

\* the closure combineLatest() returns: destroy what is listed under the
\* composite key and delete the key
unsubscribeCombine(w, s) ==
    IF CombineKey(s) \in DOMAIN w.effects
    THEN LET l == w.effects[CombineKey(s)] IN
         [w EXCEPT !.effState = [e \in EffIds |->
                       IF \E i \in 1..Len(l) : l[i] = e THEN "destroyed" ELSE @[e]],
                   !.effects = MapDelete(@, CombineKey(s))]
    ELSE w

\* userCallback inside a dispatch that catches a throw without reporting it
userCallbackSilentCatch(w, s, evt, t, writes) ==
    LET cb == w.subs[s].cb
        w1 == [w EXCEPT !.calls[s] = Append(@, evt)]
    IN CASE cb = "reject" -> [w1 EXCEPT !.pendingRej[s] = @ + 1]
         [] cb = "emit" ->
               IF Len(w1.emits) >= MaxEmits THEN w1
               ELSE IF writes THEN emit(w1, w1.subs[s].key, 1, t)
               ELSE w1
         [] OTHER -> w1

\* the user's callback of subscription s, invoked with evt at time t; failed
\* says how a failure surfaces: reported at once (a throw caught by the
\* try/catch around the call) or a rejected promise whose handler runs later
userCallback(w, s, evt, t, writes) ==
    LET cb == w.subs[s].cb
        w1 == [w EXCEPT !.calls[s] = Append(@, evt)]
    IN CASE cb = "throw" -> [w1 EXCEPT !.reported[s] = @ + 1]
         [] cb = "reject" -> [w1 EXCEPT !.pendingRej[s] = @ + 1]
         [] cb = "emit" ->
               IF Len(w1.emits) >= MaxEmits THEN w1
               ELSE IF writes THEN emit(w1, w1.subs[s].key, 1, t)
               ELSE [w1 EXCEPT !.reported[s] = @ + 1]
         [] OTHER -> w1

\* oneTimeCallback that never unsubscribes
oneTimeCallbackKeepsSubscription(w, s, evt, t, writes) ==
    userCallback(w, s, evt, t, writes)

\* oneTimeCallback of once(): unsubscribe first, then the user's callback
oneTimeCallback(w, s, evt, t, writes) ==
    userCallback(unsubscribeOn(w, s), s, evt, t, writes)

\* dispatch that hands the raw payload on, forgetting the transform
dispatchRawPayload(w, s, busEvent, t, writes) ==
    LET evt == [key |-> busEvent.key, timestamp |-> busEvent.timestamp,
                payload |-> busEvent.payload, n |-> busEvent.n]
    IN IF w.subs[s].kind = "once" THEN oneTimeCallback(w, s, evt, t, writes)
       ELSE userCallback(w, s, evt, t, writes)

\* dispatch(busEvent) of on(): transform the payload, keep key and timestamp
dispatch(w, s, busEvent, t, writes) ==
    LET transformed == Transform(w.subs[s].transform, busEvent.payload)
        evt == [key |-> busEvent.key, timestamp |-> busEvent.timestamp,
                payload |-> transformed, n |-> busEvent.n]
    IN IF w.subs[s].kind = "once" THEN oneTimeCallback(w, s, evt, t, writes)
       ELSE userCallback(w, s, evt, t, writes)

\* a main effect that works through the emissions of the key one by one: it
\* dispatches the oldest one the subscriber has not received
createMainEffectQueued(w, s, t, writes) ==
    LET w1 == getSignal(w, w.subs[s].key)
        got == {w.calls[s][c].n : c \in 1..Len(w.calls[s])}
        due == {i \in 1..Len(w.emits) :
                   /\ w.emits[i].key = w.subs[s].key
                   /\ \A g \in got : w.emits[i].n > g}
    IN IF due = {} \/ w1.events[w.subs[s].key] = NOT_EMITTED THEN w1
       ELSE dispatch(w1, s, w.emits[CHOOSE i \in due : \A j \in due : i <= j],
                     t, writes)

\* a main effect that takes the never-emitted value, read after it has
\* dispatched an event, for the end of the subscription and removes itself
createMainEffectEndsOnSentinel(w, s, t, writes) ==
    LET w1 == getSignal(w, w.subs[s].key)
        raw == w1.events[w.subs[s].key]
    IN IF raw = NOT_EMITTED
       THEN IF w1.calls[s] # <<>> /\ w1.subs[s].removeMain THEN removeMain(w1, s)
            ELSE w1
       ELSE dispatch(w1, s, raw, t, writes)

\* one run of the main effect of on(): read the cell, return on NOT_EMITTED
createMainEffect(w, s, t, writes) ==
    LET w1 == getSignal(w, w.subs[s].key)
        raw == w1.events[w.subs[s].key]
    IN IF raw = NOT_EMITTED THEN w1 ELSE dispatch(w1, s, raw, t, writes)

\* one run of the tracker effect of makeTracker (event key or keys): the loop
\* reads the cell of keys[i] only when initial[i] is NOT_EMITTED, and stops at
\* the first key that has emitted since
Fires(ev, keys, initial, i) ==
    initial[i] = NOT_EMITTED /\ keys[i] \in DOMAIN ev /\ ev[keys[i]] # NOT_EMITTED

trackerEffect(w, s) ==
    LET keys == w.subs[s].token
        initial == w.subs[s].initial
        hit == {i \in 1..Len(keys) : Fires(w.events, keys, initial, i)}
        last == IF hit = {} THEN Len(keys)
                ELSE CHOOSE i \in hit : \A j \in hit : i <= j
        read == {keys[i] : i \in {j \in 1..last : initial[j] = NOT_EMITTED}}
        w1 == [w EXCEPT !.events = [k \in read \ DOMAIN @ |-> NOT_EMITTED] @@ @]
    IN IF hit # {} THEN removeBoth(w1, s) ELSE w1

\* the effect of combineLatest() building every event with the key of the
\* first source
combineEffectFirstKey(w, s, t) ==
    LET sources == w.subs[s].sources
        w1 == [w EXCEPT !.events =
                  [k \in SourceKeys(sources) \ DOMAIN @ |-> NOT_EMITTED] @@ @]
        payloads == combineLatestToSignal(w1.events, sources)
        evs == [i \in 1..Len(sources) |->
                  [key |-> sources[1].key, timestamp |-> t,
                   payload |-> payloads.value[i], n |-> w1.events[sources[i].key].n]]
    IN IF payloads.defined
       THEN LET w2 == [w1 EXCEPT !.calls[s] = @ \o evs] IN
            CASE w.subs[s].cb = "throw" -> w2
              [] w.subs[s].cb = "reject" -> [w2 EXCEPT !.pendingRej[s] = @ + 1]
              [] OTHER -> w2
       ELSE w1

\* one run of the effect of combineLatest()
combineEffect(w, s, t) ==
    LET sources == w.subs[s].sources
        w1 == [w EXCEPT !.events =
                  [k \in SourceKeys(sources) \ DOMAIN @ |-> NOT_EMITTED] @@ @]
        payloads == combineLatestToSignal(w1.events, sources)
        evs == [i \in 1..Len(sources) |->
                  [key |-> sources[i].key, timestamp |-> t,
                   payload |-> payloads.value[i], n |-> w1.events[sources[i].key].n]]
    IN IF payloads.defined
       THEN LET w2 == [w1 EXCEPT !.calls[s] = @ \o evs] IN
            CASE w.subs[s].cb = "throw" -> w2
              [] w.subs[s].cb = "reject" -> [w2 EXCEPT !.pendingRej[s] = @ + 1]
              [] OTHER -> w2
       ELSE w1

\* one run of the tracker effect of makeTracker (Signal-like token): if the
\* signal reads truthy, removeBoth
flagTrackerEffect(w, s, value) == IF value THEN removeBoth(w, s) ELSE w

\* makeTracker(token) for a Signal-like token
makeFlagTracker(w, s) ==
    LET w1 == createEffect(w, <<"track", s>>)
    IN [addEffect(w1, TrackKey(s), <<"track", s>>) EXCEPT !.subs[s].removeTracker = TRUE]

\* makeTracker(token) for an event key or a list of keys
makeTracker(w, s) ==
    IF w.subs[s].token = DestroyToken THEN w ELSE
    IF w.subs[s].token = FlagToken THEN makeFlagTracker(w, s) ELSE
    LET keys == w.subs[s].token
        w1 == [w EXCEPT !.events = [k \in {keys[i] : i \in 1..Len(keys)} \ DOMAIN @
                                       |-> NOT_EMITTED] @@ @]
        initial == [i \in 1..Len(keys) |-> w1.events[keys[i]]]
        w2 == createEffect([w1 EXCEPT !.subs[s].initial = initial], <<"track", s>>)
    IN [addEffect(w2, TrackKey(s), <<"track", s>>) EXCEPT !.subs[s].removeTracker = TRUE]

\* the deferred part of on() without the destroyedBeforeCreate test
installIgnoresEarlyCancel(w, s) ==
    LET w1 == createEffect(w, <<"main", s>>)
        w2 == [addEffect(w1, EventKey(w.subs[s].key), <<"main", s>>)
                  EXCEPT !.subs[s].removeMain = TRUE]
        w3 == [w2 EXCEPT !.subs[s].state = "installed"]
    IN IF Len(w3.subs[s].token) > 0 THEN makeTracker(w3, s) ELSE w3

\* the deferred part of on(): Promise.resolve().then(...)
install(w, s) ==
    LET w1 == createEffect(w, <<"main", s>>)
        w2 == [addEffect(w1, EventKey(w.subs[s].key), <<"main", s>>)
                  EXCEPT !.subs[s].removeMain = TRUE]
    IN IF w2.subs[s].destroyedBeforeCreate
       THEN [removeMain(w2, s) EXCEPT !.subs[s].removeMain = FALSE,
                                      !.subs[s].state = "cancelled"]
       ELSE LET w3 == [w2 EXCEPT !.subs[s].state = "installed"] IN
            IF Len(w3.subs[s].token) > 0 THEN makeTracker(w3, s) ELSE w3

\* ---------------------------------------------------------------- actions
\* an engine instance exists: its constructor returned
Constructed == injector # Thrown

\* the state after new EventBusService(arg) in the given injection context
Construct(arg, context) ==
    /\ host = [arg |-> arg, context |-> context]
    /\ LET this == constructor(arg, context) IN
          /\ injector = this.injector
          /\ events = this.events
          /\ effects = this.effects

\* the engine as dependency injection constructs it: no argument, inside an
\* injection context that has an EnvironmentInjector
Init ==
    /\ Construct(Null, "withInjector")
    /\ effState = [e \in EffIds |-> "none"]
    /\ subs = [s \in Subs |-> NoSub]
    /\ emits = <<>>
    /\ calls = [s \in Subs |-> <<>>]
    /\ reported = [s \in Subs |-> 0]
    /\ pendingRej = [s \in Subs |-> 0]
    /\ now = 0
    /\ flushing = FALSE
    /\ signalWrites \in BOOLEAN
    /\ flag = FALSE
    /\ destroyRef = [destroyed |-> FALSE, callbacks |-> {}, endedAt |-> -1,
                     ran |-> {}, noop |-> {}]
    /\ injectorDestroyed = FALSE

\* the slot of the next subscription
Free(s) == subs[s].kind = "none" /\ \A r \in 1..(s - 1) : subs[r].kind # "none"

\* emit(key, payload) called by the user, dt after the previous emit
Emit(k, p, dt) ==
    /\ Constructed /\ ~flushing
    /\ Len(emits) < MaxEmits
    /\ now + dt <= MaxTime
    /\ now' = now + dt
    /\ Set(emit(World, k, p, now + dt))
    /\ UNCHANGED <<flushing, signalWrites, host, injector, flag, destroyRef, injectorDestroyed>>

\* latest(key) called by the user: the read goes through getSignal
Latest(k) ==
    /\ Constructed /\ ~flushing
    /\ Set(getSignal(World, k))
    /\ UNCHANGED <<now, flushing, signalWrites, host, injector, flag, destroyRef, injectorDestroyed>>

\* onToSignal(key, .) created and read by the user: the computed reads the
\* cell through getSignal
OnToSignal(k) ==
    /\ Constructed /\ ~flushing
    /\ Set(getSignal(World, k))
    /\ UNCHANGED <<now, flushing, signalWrites, host, injector, flag, destroyRef, injectorDestroyed>>

\* the signal combineLatestToSignal(sources) returned is read by the user:
\* the computed reads the cell of every source through getSignal
CombineLatestToSignal(sources) ==
    /\ Constructed /\ ~flushing
    /\ Set([World EXCEPT !.events =
              [k \in SourceKeys(sources) \ DOMAIN @ |-> NOT_EMITTED] @@ @])
    /\ UNCHANGED <<now, flushing, signalWrites, host, injector, flag, destroyRef, injectorDestroyed>>

\* on(key, {callback, transform, unsubscribeOn}), up to the return of the handle
On(s, k, tr, tok, cb) ==
    /\ Constructed /\ ~flushing
    /\ Free(s)
    /\ subs' = [subs EXCEPT ![s] =
                  [NoSub EXCEPT !.kind = "on", !.key = k, !.transform = tr,
                                !.token = tok, !.cb = cb, !.state = "pending",
                                !.calledAt = Len(emits)]]
    /\ UNCHANGED <<events, effects, effState, emits, calls, reported, pendingRej,
                   now, flushing, signalWrites, host, injector, flag, destroyRef, injectorDestroyed>>

\* once(key, {callback, transform}): on() with oneTimeCallback
Once(s, k, tr, cb) ==
    /\ Constructed /\ ~flushing
    /\ Free(s)
    /\ subs' = [subs EXCEPT ![s] =
                  [NoSub EXCEPT !.kind = "once", !.key = k, !.transform = tr,
                                !.cb = cb, !.state = "pending",
                                !.calledAt = Len(emits)]]
    /\ UNCHANGED <<events, effects, effState, emits, calls, reported, pendingRej,
                   now, flushing, signalWrites, host, injector, flag, destroyRef, injectorDestroyed>>

\* once(key, {callback, transform, unsubscribeOn}): once() hands callback and
\* transform on to on(), and nothing else
OnceUnsubscribeOn(s, k, tr, tok, cb) ==
    /\ Constructed /\ ~flushing
    /\ Free(s)
    /\ subs' = [subs EXCEPT ![s] =
                  [NoSub EXCEPT !.kind = "once", !.key = k, !.transform = tr,
                                !.cb = cb, !.state = "pending",
                                !.unsubscribeOn = tok,
                                !.calledAt = Len(emits)]]
    /\ UNCHANGED <<events, effects, effState, emits, calls, reported, pendingRej,
                   now, flushing, signalWrites, host, injector, flag, destroyRef, injectorDestroyed>>

\* combineLatest({sources, callback}): the effect is created and registered
\* under the composite key before the call returns.  On a destroyed injector
\* runInInjectionContext throws: the call creates and registers nothing and
\* returns no handle
CombineLatest(s, sources, cb) ==
    /\ Constructed /\ ~flushing
    /\ Free(s)
    /\ LET w1 == [World EXCEPT !.subs[s] =
                    [NoSub EXCEPT !.kind = "combine", !.sources = sources,
                                  !.cb = cb,
                                  !.state = IF injectorDestroyed THEN "failed"
                                            ELSE "installed",
                                  !.calledAt = Len(emits)]]
       IN Set(IF injectorDestroyed THEN w1
              ELSE addEffect(createEffect(w1, <<"main", s>>), CombineKey(s),
                             <<"main", s>>))
    /\ UNCHANGED <<now, flushing, signalWrites, host, injector, flag, destroyRef, injectorDestroyed>>

\* the microtask on() queued runs.  With a DestroyRef as token, makeTracker
\* registers removeBoth with it: token.onDestroy(removeBoth); a DestroyRef
\* whose lifecycle has ended refuses the registration (onDestroy throws, after
\* the main effect was registered).  On a destroyed injector
\* runInInjectionContext throws and nothing is created
Install(s) ==
    /\ Constructed /\ ~flushing
    /\ subs[s].state = "pending"
    /\ Set(IF injectorDestroyed THEN [World EXCEPT !.subs[s].state = "failed"]
           ELSE install(World, s))
    /\ destroyRef' =
          IF ~injectorDestroyed /\ subs[s].token = DestroyToken
             /\ ~subs[s].destroyedBeforeCreate /\ ~destroyRef.destroyed
          THEN [destroyRef EXCEPT !.callbacks = @ \cup {s}]
          ELSE destroyRef
    /\ UNCHANGED <<now, flushing, signalWrites, host, injector, flag,
                   injectorDestroyed>>

\* the user invokes the handle on(), once() or combineLatest() returned
Handle(s) ==
    /\ Constructed /\ ~flushing
    /\ subs[s].kind # "none"
    /\ ~(subs[s].kind = "combine" /\ subs[s].state = "failed")
    /\ LET w1 == IF subs[s].kind = "combine" THEN unsubscribeCombine(World, s)
                 ELSE unsubscribeOn(World, s)
       IN Set([w1 EXCEPT !.subs[s].handleAt = IF @ = -1 THEN Len(calls[s]) ELSE @])
    /\ UNCHANGED <<now, flushing, signalWrites, host, injector, flag, destroyRef, injectorDestroyed>>

\* clearSubscriptions(): effects.forEach(... eff.destroy()); effects.clear()
clearSubscriptions(w) ==
    [w EXCEPT !.effState = [e \in EffIds |->
                  IF \E rk \in DOMAIN w.effects :
                        \E i \in 1..Len(w.effects[rk]) : w.effects[rk][i] = e
                  THEN "destroyed" ELSE @[e]],
              !.effects = <<>>]

ClearSubscriptions ==
    /\ Constructed /\ ~flushing
    /\ LET w1 == clearSubscriptions(World) IN
       Set([w1 EXCEPT !.subs = [s \in Subs |->
               IF @[s].kind # "none" /\ @[s].clearedAt = -1
               THEN [@[s] EXCEPT !.clearedAt = Len(emits)] ELSE @[s]]])
    /\ UNCHANGED <<now, flushing, signalWrites, host, injector, flag, destroyRef, injectorDestroyed>>

\* ngOnDestroy(): this.clearSubscriptions(); this.events.clear()
ngOnDestroy(w) == [clearSubscriptions(w) EXCEPT !.events = <<>>]

\* ngOnDestroy() runs, called by the injector that is being destroyed (the
\* captured injector is then a destroyed one) or by hand, or by an injector
\* other than the captured one (the captured injector lives on)
NgOnDestroy ==
    /\ Constructed /\ ~flushing
    /\ LET w1 == ngOnDestroy(World) IN
       Set([w1 EXCEPT !.subs = [s \in Subs |->
               IF @[s].kind # "none"
               THEN [@[s] EXCEPT !.tornDown = TRUE,
                                 !.clearedAt = IF @ = -1 THEN Len(emits) ELSE @]
               ELSE @[s]]])
    /\ \E dead \in BOOLEAN : injectorDestroyed' = (injectorDestroyed \/ dead)
    /\ UNCHANGED <<now, flushing, signalWrites, host, injector, flag, destroyRef>>

\* unsubscribe(key) that destroys the effects of the key and keeps their list
unsubscribeKeepsList(w, k) ==
    IF EventKey(k) \in DOMAIN w.effects
    THEN LET keyEffects == w.effects[EventKey(k)] IN
         [w EXCEPT !.effState = [e \in EffIds |->
                       IF \E i \in 1..Len(keyEffects) : keyEffects[i] = e
                       THEN "destroyed" ELSE @[e]]]
    ELSE w

\* unsubscribe(key)
unsubscribe(w, k) ==
    IF EventKey(k) \in DOMAIN w.effects
    THEN LET keyEffects == w.effects[EventKey(k)] IN
         [w EXCEPT !.effState = [e \in EffIds |->
                       IF \E i \in 1..Len(keyEffects) : keyEffects[i] = e
                       THEN "destroyed" ELSE @[e]],
                   !.effects = MapDelete(@, EventKey(k))]
    ELSE w

Unsubscribe(k) ==
    /\ Constructed /\ ~flushing
    /\ Set(unsubscribe(World, k))
    /\ UNCHANGED <<now, flushing, signalWrites, host, injector, flag, destroyRef, injectorDestroyed>>

\* unsubscribe(key), with the observation unsubAt taken
UnsubscribeObserved(k) ==
    /\ Constructed /\ ~flushing
    /\ LET w1 == unsubscribe(World, k) IN
       Set([w1 EXCEPT !.subs = [s \in Subs |->
               IF @[s].kind \in {"on", "once"} /\ @[s].key = k /\ @[s].unsubAt = -1
               THEN [@[s] EXCEPT !.unsubAt = Len(emits)] ELSE @[s]]])
    /\ UNCHANGED <<now, flushing, signalWrites, host, injector, flag, destroyRef, injectorDestroyed>>

\* resetEvent(key) / resetAllEvents() called by the user
ResetEvent(k) ==
    /\ Constructed /\ ~flushing
    /\ Set(resetEvent(World, k))
    /\ UNCHANGED <<now, flushing, signalWrites, host, injector, flag, destroyRef, injectorDestroyed>>

ResetAllEvents ==
    /\ Constructed /\ ~flushing
    /\ Set(resetAllEvents(World))
    /\ UNCHANGED <<now, flushing, signalWrites, host, injector, flag, destroyRef, injectorDestroyed>>

\* the callbacks of the subscriptions in S, registered with the DestroyRef
RECURSIVE onDestroy(_, _)
onDestroy(w, S) ==
    IF S = {} THEN w
    ELSE LET s == CHOOSE x \in S : \A y \in S : x <= y
         IN onDestroy(removeBoth(w, s), S \ {s})

\* the lifecycle of the DestroyRef ends: it invokes the registered callbacks
DestroyRefEnds ==
    /\ Constructed /\ ~flushing
    /\ ~destroyRef.destroyed
    /\ Set(onDestroy(World, destroyRef.callbacks))
    /\ destroyRef' = [destroyed |-> TRUE, callbacks |-> {},
                      endedAt |-> Len(emits), ran |-> destroyRef.callbacks,
                      noop |-> {s \in destroyRef.callbacks : subs[s].handleAt >= 0}]
    /\ UNCHANGED <<now, flushing, signalWrites, host, injector, flag,
                   injectorDestroyed>>

\* the user sets the flag signal: the live tracker effects that read it are
\* scheduled (a signal set to the value it holds notifies nobody)
SetFlag(v) ==
    /\ Constructed /\ ~flushing
    /\ v # flag
    /\ flag' = v
    /\ effState' = [e \in EffIds |->
          IF e[1] = "track" /\ subs[e[2]].token = FlagToken /\ effState[e] = "clean"
          THEN "dirty" ELSE effState[e]]
    /\ subs' = [s \in Subs |->
          IF v /\ subs[s].kind = "on" /\ subs[s].token = FlagToken
               /\ subs[s].flagAt = -1
          THEN [subs[s] EXCEPT !.flagAt = Len(emits)] ELSE subs[s]]
    /\ UNCHANGED <<events, effects, emits, calls, reported, pendingRej, now,
                   flushing, signalWrites, host, injector, destroyRef,
                   injectorDestroyed>>

\* the runtime runs one scheduled effect, dt after the previous reading of
\* the clock: the body reads Date.now() as it runs (emit() called by a
\* callback, the events combineLatest() builds); the flush goes on while any
\* effect is left
RunEffect(e, dt) ==
    /\ effState[e] = "dirty"
    /\ now + dt <= MaxTime
    /\ now' = now + dt
    /\ LET s == e[2]
           w0 == [World EXCEPT !.effState[e] = "clean",
                               !.subs[s].activeAt =
                                   IF e[1] = "main" /\ @ = -1 THEN Len(emits) ELSE @]
           w1 == IF e[1] = "track"
                 THEN IF subs[s].token = FlagToken
                      THEN flagTrackerEffect(w0, s, flag)
                      ELSE trackerEffect(w0, s)
                 ELSE IF subs[s].kind = "combine" THEN combineEffect(w0, s, now + dt)
                 ELSE createMainEffect(w0, s, now + dt, signalWrites)
       IN /\ Set(w1)
          /\ flushing' = AnyDirty(w1.effState)
    /\ UNCHANGED <<signalWrites, host, injector, flag, destroyRef, injectorDestroyed>>

\* the body of the effect stores what Date.now() reads: the events the
\* effect of combineLatest() builds, the event of an emit() its callback makes
StoresClock(e) ==
    /\ e[1] = "main"
    /\ \/ subs[e[2]].kind = "combine"
       \/ subs[e[2]].cb = "emit" /\ signalWrites

\* the runtime runs a scheduled effect after the clock has advanced
RunEffectLater(e) == StoresClock(e) /\ RunEffect(e, 1)

\* the catch handler of a rejected callback promise runs: console.error
ReportRejection(s) ==
    /\ Constructed /\ ~flushing
    /\ pendingRej[s] > 0
    /\ pendingRej' = [pendingRej EXCEPT ![s] = @ - 1]
    /\ reported' = [reported EXCEPT ![s] = @ + 1]
    /\ UNCHANGED <<events, effects, effState, subs, emits, calls, now, flushing,
                   signalWrites, host, injector, flag, destroyRef, injectorDestroyed>>

\* -------------------------------------------------------- specifications
\* Delivery on one key: on() with and without transform, explicit handles.
NextDeliver ==
    \/ \E p \in Payloads, dt \in {0, 1} : Emit("login", p, dt)
    \/ \E s \in Subs, tr \in Transforms : On(s, "login", tr, <<>>, "ok")
    \/ \E s \in Subs : Install(s)
    \/ \E s \in Subs : Handle(s)
    \/ \E e \in EffIds : RunEffect(e, 0)

InitNoWrites == Init /\ signalWrites = FALSE

Spec == InitNoWrites /\ [][NextDeliver]_vars

\* once() on one key, with callbacks that emit the key again synchronously,
\* under both kinds of runtime (signal writes inside effects allowed or not);
\* the effects whose callback emits run at the instant of the emission or later.
NextOnce ==
    \/ Emit("login", 1, 0)
    \/ \E s \in Subs, cb \in OnceCallbacks : Once(s, "login", "none", cb)
    \/ \E s \in Subs : Install(s)
    \/ \E s \in Subs : Handle(s)
    \/ \E e \in EffIds : RunEffect(e, 0)
    \/ \E e \in EffIds : RunEffectLater(e)

SpecOnce == Init /\ [][NextOnce]_vars

\* Conditional unsubscribe on event keys: on() with an unsubscribeOn token.
NextTrack ==
    \/ \E k \in Keys : Emit(k, 1, 0)
    \/ \E s \in Subs, tok \in Tokens : On(s, "login", "none", tok, "ok")
    \/ \E s \in Subs : Install(s)
    \/ \E s \in Subs : Handle(s)
    \/ \E e \in EffIds : RunEffect(e, 0)

SpecTrack == InitNoWrites /\ [][NextTrack]_vars

\* Failing callbacks: on() with callbacks that throw or return a rejecting
\* promise, next to callbacks that do neither.
NextFail ==
    \/ Emit("login", 1, 0)
    \/ \E s \in Subs, cb \in Callbacks : On(s, "login", "none", <<>>, cb)
    \/ \E s \in Subs : Install(s)
    \/ \E e \in EffIds : RunEffect(e, 0)
    \/ \E s \in Subs : ReportRejection(s)

SpecFail == InitNoWrites /\ [][NextFail]_vars

\* Teardown of all subscriptions: on(), once() and combineLatest() with
\* clearSubscriptions().
NextTeardown ==
    \/ \E k \in SubKeys : Emit(k, 1, 0)
    \/ \E s \in Subs : On(s, "login", "none", <<>>, "ok")
    \/ \E s \in Subs : Once(s, "login", "none", "ok")
    \/ \E s \in Subs, sources \in SourceLists : CombineLatest(s, sources, "ok")
    \/ \E s \in Subs : Install(s)
    \/ ClearSubscriptions
    \/ \E e \in EffIds : RunEffect(e, 0)
    \/ \E e \in EffIds : RunEffectLater(e)

SpecTeardown == InitNoWrites /\ [][NextTeardown]_vars

\* Transforms: on() with and without transform, emissions at two times.
NextTransform ==
    \/ \E dt \in {0, 1} : Emit("login", 1, dt)
    \/ \E s \in Subs, tr \in Transforms : On(s, "login", tr, <<>>, "ok")
    \/ \E s \in Subs : Install(s)
    \/ \E e \in EffIds : RunEffect(e, 0)

SpecTransform == InitNoWrites /\ [][NextTransform]_vars

\* Handles: on() on one key, its handles, and unsubscribe(key), which empties
\* the registry entry the handles look their watcher up in.
NextHandle ==
    \/ Emit("login", 1, 0)
    \/ \E s \in Subs : On(s, "login", "none", <<>>, "ok")
    \/ \E s \in Subs : Install(s)
    \/ \E s \in Subs : Handle(s)
    \/ Unsubscribe("login")
    \/ \E e \in EffIds : RunEffect(e, 0)

SpecHandle == InitNoWrites /\ [][NextHandle]_vars

\* The store read through latest(): emissions of one key with both payloads
\* at two times, reads of an emitted and of a never emitted key.
NextLatest ==
    \/ \E p \in Payloads, dt \in {0, 1} : Emit("login", p, dt)
    \/ \E k \in SubKeys : Latest(k)
    \/ \E s \in Subs : Once(s, "login", "none", "ok")
    \/ \E s \in Subs : Install(s)
    \/ \E e \in EffIds : RunEffect(e, 0)

SpecLatest == InitNoWrites /\ [][NextLatest]_vars

\* The store read through combineLatestToSignal(): emissions on two keys, one
\* of them with both payloads, next to combineLatest() watchers and reads that
\* create cells; every reading of the clock falls on one instant.
NextCombine ==
    \/ \E p \in Payloads : Emit("login", p, 0)
    \/ Emit("logout", 1, 0)
    \/ \E k \in Keys : Latest(k)
    \/ \E sources \in SourceLists : CombineLatestToSignal(sources)
    \/ \E s \in Subs, sources \in SourceLists : CombineLatest(s, sources, "ok")
    \/ \E e \in EffIds : RunEffect(e, 0)

SpecCombine == InitNoWrites /\ [][NextCombine]_vars

\* The race of the handle with the deferred installation: on() with an
\* unsubscribeOn key, handles invoked before and after the installation.
NextRace ==
    \/ Emit("login", 1, 0)
    \/ \E s \in Subs : On(s, "login", "none", <<"logout">>, "ok")
    \/ \E s \in Subs : Install(s)
    \/ \E s \in Subs : Handle(s)
    \/ \E e \in EffIds : RunEffect(e, 0)

SpecRace == InitNoWrites /\ [][NextRace]_vars

\* unsubscribe(key) next to subscribers of that key (on, once), of another
\* key, and combineLatest() subscriptions with the key among their sources.
NextUnsub ==
    \/ \E k \in SubKeys : Emit(k, 1, 0)
    \/ \E s \in Subs, k \in SubKeys : On(s, k, "none", <<>>, "ok")
    \/ \E s \in Subs : Once(s, "login", "none", "ok")
    \/ \E s \in Subs, sources \in SourceLists : CombineLatest(s, sources, "ok")
    \/ \E s \in Subs : Install(s)
    \/ UnsubscribeObserved("login")
    \/ \E e \in EffIds : RunEffect(e, 0)
    \/ \E e \in EffIds : RunEffectLater(e)

SpecUnsub == InitNoWrites /\ [][NextUnsub]_vars

\* on() on one key, then on() on another
OnTwoKeys ==
    \/ On(1, "login", "none", <<>>, "ok")
    \/ On(2, "logout", "none", <<>>, "ok")

\* Resets of the cells next to live subscribers: emissions of two keys, a
\* subscriber of each, their handles, resetEvent() of either key and
\* resetAllEvents().
NextReset ==
    \/ \E k \in SubKeys : Emit(k, 1, 0)
    \/ OnTwoKeys
    \/ \E s \in Subs : Install(s)
    \/ \E s \in Subs : Handle(s)
    \/ \E k \in SubKeys : ResetEvent(k)
    \/ ResetAllEvents
    \/ \E e \in EffIds : RunEffect(e, 0)

SpecReset == InitNoWrites /\ [][NextReset]_vars

\* Full teardown: ngOnDestroy() next to on(), once() and combineLatest()
\* subscriptions in every state of their installation.
NextDestroy ==
    \/ \E k \in SubKeys : Emit(k, 1, 0)
    \/ \E s \in Subs : On(s, "login", "none", <<>>, "ok")
    \/ \E s \in Subs : Once(s, "login", "none", "ok")
    \/ \E s \in Subs, sources \in SourceLists : CombineLatest(s, sources, "ok")
    \/ \E s \in Subs : Install(s)
    \/ NgOnDestroy
    \/ \E e \in EffIds : RunEffect(e, 0)
    \/ \E e \in EffIds : RunEffectLater(e)

SpecDestroy == InitNoWrites /\ [][NextDestroy]_vars

\* The store read through onToSignal(): emissions of one key with both
\* payloads, views on an emitted and on a never emitted key, next to on()
\* watchers.
NextView ==
    \/ \E p \in Payloads : Emit("login", p, 0)
    \/ \E k \in SubKeys : OnToSignal(k)
    \/ \E s \in Subs : On(s, "login", "none", <<>>, "ok")
    \/ \E s \in Subs : Install(s)
    \/ \E e \in EffIds : RunEffect(e, 0)

SpecView == InitNoWrites /\ [][NextView]_vars

\* Construction with and without an injector argument in every kind of
\* injection context, followed by ordinary use of the engine.
InitAnyHost ==
    /\ \E arg \in InjectorArgs, context \in Contexts : Construct(arg, context)
    /\ effState = [e \in EffIds |-> "none"]
    /\ subs = [s \in Subs |-> NoSub]
    /\ emits = <<>>
    /\ calls = [s \in Subs |-> <<>>]
    /\ reported = [s \in Subs |-> 0]
    /\ pendingRej = [s \in Subs |-> 0]
    /\ now = 0
    /\ flushing = FALSE
    /\ signalWrites = FALSE
    /\ flag = FALSE
    /\ destroyRef = [destroyed |-> FALSE, callbacks |-> {}, endedAt |-> -1,
                     ran |-> {}, noop |-> {}]
    /\ injectorDestroyed = FALSE

NextConstruct ==
    \/ Emit("login", 1, 0)
    \/ \E k \in SubKeys : Latest(k)
    \/ \E s \in Subs : On(s, "login", "none", <<>>, "ok")
    \/ \E s \in Subs : Install(s)
    \/ \E e \in EffIds : RunEffect(e, 0)

SpecConstruct == InitAnyHost /\ [][NextConstruct]_vars

\* Every way a subscription with a tracker ends: the handle, the tracked key,
\* unsubscribe(key) and clearSubscriptions().
NextPair ==
    \/ \E k \in SubKeys : Emit(k, 1, 0)
    \/ \E s \in Subs : On(s, "login", "none", <<"logout">>, "ok")
    \/ \E s \in Subs : Install(s)
    \/ \E s \in Subs : Handle(s)
    \/ Unsubscribe("login")
    \/ ClearSubscriptions
    \/ \E e \in EffIds : RunEffect(e, 0)

SpecPair == InitNoWrites /\ [][NextPair]_vars

\* once() with an unsubscribeOn key, and emissions of that key and of the
\* subscribed key.
NextOnceUntil ==
    \/ \E k \in SubKeys : Emit(k, 1, 0)
    \/ \E s \in Subs : OnceUnsubscribeOn(s, "login", "none", <<"logout">>, "ok")
    \/ \E s \in Subs : Install(s)
    \/ \E e \in EffIds : RunEffect(e, 0)

SpecOnceUntil == InitNoWrites /\ [][NextOnceUntil]_vars

\* Failing combineLatest() callbacks: callbacks that throw or return a
\* rejecting promise, next to callbacks that do neither.
NextCombineFail ==
    \/ \E k \in SubKeys : Emit(k, 1, 0)
    \/ \E s \in Subs, sources \in SourceLists, cb \in Callbacks :
          CombineLatest(s, sources, cb)
    \/ \E e \in EffIds : RunEffect(e, 0)
    \/ \E e \in EffIds : RunEffectLater(e)
    \/ \E s \in Subs : ReportRejection(s)

SpecCombineFail == InitNoWrites /\ [][NextCombineFail]_vars

\* Conditional unsubscribe on a boolean signal: on() with the flag as
\* unsubscribeOn, the flag set and cleared, emissions of the key.
NextFlag ==
    \/ Emit("login", 1, 0)
    \/ \E s \in Subs : On(s, "login", "none", FlagToken, "ok")
    \/ \E s \in Subs : Install(s)
    \/ \E v \in BOOLEAN : SetFlag(v)
    \/ \E e \in EffIds : RunEffect(e, 0)

SpecFlag == InitNoWrites /\ [][NextFlag]_vars

\* the owner of the DestroyRef invokes a handle while its lifecycle lasts
HandleWhileAlive(s) == ~destroyRef.destroyed /\ Handle(s)

\* Conditional unsubscribe on a DestroyRef: on() with the DestroyRef as
\* unsubscribeOn, the handles invoked before the lifecycle ends, the end of
\* the lifecycle.
NextLifecycle ==
    \/ Emit("login", 1, 0)
    \/ \E s \in Subs : On(s, "login", "none", DestroyToken, "ok")
    \/ \E s \in Subs : Install(s)
    \/ \E s \in Subs : HandleWhileAlive(s)
    \/ DestroyRefEnds
    \/ \E e \in EffIds : RunEffect(e, 0)

SpecLifecycle == InitNoWrites /\ [][NextLifecycle]_vars

\* the user invokes the handle combineLatest() returned
HandleCombine(s) == subs[s].kind = "combine" /\ Handle(s)

\* The handle of combineLatest() next to other subscriptions: combineLatest()
\* and, made before them, on() over one of the keys, the handles of
\* combineLatest(), emissions of the source keys; every reading of the clock
\* falls on one instant.
NextCombineHandle ==
    \/ \E k \in SubKeys : Emit(k, 1, 0)
    \/ \E s \in Subs, sources \in SourceLists : CombineLatest(s, sources, "ok")
    \/ On(1, "login", "none", <<>>, "ok")
    \/ Install(1)
    \/ \E s \in Subs : HandleCombine(s)
    \/ \E e \in EffIds : RunEffect(e, 0)

SpecCombineHandle == InitNoWrites /\ [][NextCombineHandle]_vars

\* ------------------------------------------------------------ properties
KeyEmits(k) == SelectSeq(emits, LAMBDA e : e.key = k)
Numbers(seq) == [i \in 1..Len(seq) |-> seq[i].n]
Main(s) == <<"main", s>>
Registered(reg, e) == \E rk \in DOMAIN reg : \E i \in 1..Len(reg[rk]) : reg[rk][i] = e
IsOn(s) == subs[s].kind \in {"on", "once"}

\* the tracker of subscription s has been attached (makeTracker ran)
Attached(s) ==
    /\ subs[s].kind = "on" /\ Len(subs[s].token) > 0
    /\ Len(subs[s].initial) = Len(subs[s].token)

LastOf(seq) == seq[Len(seq)]

\* the source lists the combined view is read with
ViewSources ==
    {<<[key |-> k, transform |-> tr]>> : k \in Keys, tr \in Transforms}
    \cup {<<[key |-> k1, transform |-> tr], [key |-> k2, transform |-> "none"]>> :
             k1 \in Keys, k2 \in Keys, tr \in Transforms}

\* C1: a subscriber of on(k) whose watcher was active before the emissions, and
\* whose watcher has nothing left to run, has been invoked exactly once per
\* emit(k, .), in emission order.
C1_OneDispatchPerEmit ==
    \A s \in Subs :
        (subs[s].kind = "on" /\ subs[s].activeAt = 0 /\ effState[Main(s)] = "clean")
        => Numbers(calls[s]) = Numbers(KeyEmits(subs[s].key))

\* C2: no replay: a callback of on(k) / once(k) is never invoked for an event
\* that was emitted before the subscription was made.
C2_NoReplay ==
    \A s \in Subs :
        IsOn(s) => \A i \in 1..Len(calls[s]) : calls[s][i].n > subs[s].calledAt

\* C3: the user callback of once(k) is invoked at most once, and exactly once
\* when an emit(k, .) has followed the subscription and the watcher has
\* nothing left to run (unless the handle was invoked), also when k is emitted
\* again and when the callback itself emits k.
C3_OnceExactlyOnce ==
    \A s \in Subs : subs[s].kind = "once" =>
        /\ Len(calls[s]) <= 1
        /\ ( /\ subs[s].state = "installed"
             /\ subs[s].handleAt = -1
             /\ effState[Main(s)] # "dirty"
             /\ \E i \in 1..Len(emits) :
                   emits[i].key = subs[s].key /\ emits[i].n > subs[s].calledAt )
           => Len(calls[s]) = 1

\* a once() callback that emits its own key was invoked for the first emit,
\* its emit went through, the key was emitted a third time, and nothing is
\* left to run
C3_Witness ==
    \E s \in Subs :
        /\ subs[s].kind = "once" /\ subs[s].cb = "emit" /\ signalWrites
        /\ subs[s].calledAt = 0
        /\ Len(calls[s]) = 1 /\ calls[s][1].n = 1
        /\ Len(emits) = 3
        /\ ~AnyDirty(effState) /\ ~flushing

\* C4: for on(k, {unsubscribeOn: T}) with T event keys none of which had
\* emitted when the tracker was attached: no emit(k, .) made after an emission
\* of a key of T is dispatched to the callback.
C4_NoDispatchAfterTrackedKey ==
    \A s \in Subs :
        (Attached(s) /\ \A i \in 1..Len(subs[s].initial) : subs[s].initial[i] = NOT_EMITTED)
        => \A c \in 1..Len(calls[s]), i \in 1..Len(emits) :
              (\E j \in 1..Len(subs[s].token) : emits[i].key = subs[s].token[j])
              => calls[s][c].n < emits[i].n

\* C5: a callback of on(k) that throws or returns a rejecting promise does not
\* keep any live subscriber of k from receiving the event, does not keep the
\* cell from holding the emitted event, and is reported: at once for a throw,
\* when the catch handler runs for a rejection.
C5_FailureIsolation ==
    /\ \A s \in Subs :
          (subs[s].kind = "on" /\ effState[Main(s)] = "clean"
              /\ KeyEmits(subs[s].key) # <<>>)
          => /\ calls[s] # <<>>
             /\ LastOf(calls[s]).n = LastOf(KeyEmits(subs[s].key)).n
    /\ \A k \in Keys :
          KeyEmits(k) # <<>> => latest(events, k) = LastOf(KeyEmits(k))
    /\ \A s \in Subs : subs[s].kind = "on" =>
          CASE subs[s].cb = "throw" ->
                  reported[s] = Len(calls[s]) /\ pendingRej[s] = 0
            [] subs[s].cb = "reject" ->
                  reported[s] + pendingRej[s] = Len(calls[s])
            [] OTHER -> reported[s] = 0 /\ pendingRej[s] = 0

\* a throwing subscriber and another subscriber were both dispatched for the
\* second emit, and the throw was reported each time
C5_Witness ==
    \E s, r \in Subs :
        /\ subs[s].kind = "on" /\ subs[s].cb = "throw"
        /\ subs[r].kind = "on" /\ subs[r].cb = "ok"
        /\ Len(calls[s]) = 2 /\ reported[s] = 2
        /\ calls[r] # <<>> /\ LastOf(calls[r]).n = 2 /\ LastOf(calls[s]).n = 2

\* C6: after clearSubscriptions(), no callback of a subscription made before
\* the call is invoked for a later emit, and latest(k) is the newly emitted
\* event.
C6_NoCallbackAfterClear ==
    /\ \A s \in Subs : subs[s].clearedAt >= 0 =>
          \A c \in 1..Len(calls[s]) : calls[s][c].n <= subs[s].clearedAt
    /\ \A k \in Keys :
          KeyEmits(k) # <<>> => latest(events, k) = LastOf(KeyEmits(k))

\* C7: combineLatestToSignal(sources) is absent while a source key has never
\* emitted, and otherwise the list of the transformed payloads of the latest
\* event of each source key, in the order of the sources.
C7_CombinedView ==
    \A sources \in ViewSources :
        LET view == combineLatestToSignal(events, sources) IN
        IF \E i \in 1..Len(sources) : KeyEmits(sources[i].key) = <<>>
        THEN ~view.defined
        ELSE /\ view.defined
             /\ Len(view.value) = Len(sources)
             /\ \A i \in 1..Len(sources) :
                   view.value[i] = Transform(sources[i].transform,
                                             LastOf(KeyEmits(sources[i].key)).payload)

\* the view over (login with transform, logout) became defined with the
\* third emit and holds the payload of the second login
C7_Witness ==
    /\ Len(emits) = 3
    /\ emits[1].key = "login" /\ emits[1].payload = 1
    /\ emits[2].key = "login" /\ emits[2].payload = Undefined
    /\ emits[3].key = "logout"
    /\ combineLatestToSignal(events,
          <<[key |-> "login", transform |-> "plus10"],
            [key |-> "logout", transform |-> "none"]>>)
       = [defined |-> TRUE, value |-> <<10, emits[3].payload>>]
    /\ ~combineLatestToSignal(events,
          <<[key |-> "login", transform |-> "none"],
            [key |-> "expire", transform |-> "none"]>>).defined

\* C8: latest(k) is absent exactly when k has never been emitted; otherwise it
\* is the event of the most recent emit(k, p): key k, payload p (undefined
\* included) and the time of that emit, which is not before the call.
C8_Latest ==
    \A k \in Keys :
        LET l == latest(events, k) IN
        IF KeyEmits(k) = <<>> THEN l = Absent
        ELSE LET e == LastOf(KeyEmits(k)) IN
             /\ l # Absent
             /\ l.key = k /\ l.payload = e.payload /\ l.timestamp = e.timestamp
             /\ l.n = e.n
             /\ \A i \in 1..(e.n - 1) : emits[i].timestamp <= l.timestamp

\* login was emitted twice, the second time later and with the payload
\* undefined; logout has a cell (latest read it) and has never emitted
C8_Witness ==
    /\ Len(KeyEmits("login")) = 2
    /\ latest(events, "login").payload = Undefined
    /\ latest(events, "login").timestamp = 1
    /\ KeyEmits("login")[1].timestamp = 0
    /\ "logout" \in DOMAIN events
    /\ latest(events, "logout") = Absent

\* C9: every event delivered by on(k, {transform}) has the key and the
\* timestamp of the event emit stored and the payload transform(p); two
\* subscribers dispatched for the same emit get the same key and timestamp.
C9_DeliveredEvent ==
    /\ \A s \in Subs : IsOn(s) =>
          \A i \in 1..Len(calls[s]) :
              LET c == calls[s][i]
                  e == emits[c.n]
              IN /\ e.key = subs[s].key
                 /\ c.key = e.key
                 /\ c.timestamp = e.timestamp
                 /\ c.payload = Transform(subs[s].transform, e.payload)
    /\ \A s1, s2 \in Subs : (IsOn(s1) /\ IsOn(s2)) =>
          \A i \in 1..Len(calls[s1]), j \in 1..Len(calls[s2]) :
              calls[s1][i].n = calls[s2][j].n =>
                  /\ calls[s1][i].key = calls[s2][j].key
                  /\ calls[s1][i].timestamp = calls[s2][j].timestamp

\* two subscribers, one with a transform, were dispatched for the same emit,
\* made at time 1 with payload 1
C9_Witness ==
    \E s1, s2 \in Subs :
        /\ subs[s1].kind = "on" /\ subs[s1].transform = "plus10"
        /\ subs[s2].kind = "on" /\ subs[s2].transform = "none"
        /\ \E i \in 1..Len(calls[s1]), j \in 1..Len(calls[s2]) :
              /\ calls[s1][i].n = calls[s2][j].n
              /\ calls[s1][i].payload = 11 /\ calls[s2][j].payload = 1
              /\ calls[s1][i].timestamp = 1

\* what holds of a subscription whose handle has been invoked
C10_AfterHandle ==
    \A s \in Subs : (IsOn(s) /\ subs[s].handleAt >= 0) =>
        /\ Len(calls[s]) = subs[s].handleAt
        /\ subs[s].state # "pending" =>
              (~Registered(effects, Main(s)) /\ effState[Main(s)] = "destroyed")

\* what a step that invokes a handle may change
C10_HandleStep ==
    \A s \in Subs : (IsOn(s) /\ Handle(s)) =>
        /\ \A e \in EffIds : e[2] # s =>
              /\ effState'[e] = effState[e]
              /\ Registered(effects', e) = Registered(effects, e)
        /\ subs[s].handleAt >= 0 =>
              UNCHANGED <<events, effects, effState, calls, emits>>

\* C10: the handle on(k) returns is idempotent: once invoked, the callback is
\* never invoked again and the watcher is not in the registry; a further
\* invocation changes nothing; no invocation touches another subscription.
C10_HandleIdempotent == [](C10_AfterHandle) /\ [][C10_HandleStep]_vars

\* the handle of a subscription was invoked after installation while
\* another subscription on the same key is still registered
C10_Witness ==
    \E s, r \in Subs :
        /\ s # r /\ subs[s].kind = "on" /\ subs[r].kind = "on"
        /\ subs[s].key = subs[r].key
        /\ subs[s].handleAt >= 0 /\ subs[s].state = "installed"
        /\ Len(calls[s]) > 0
        /\ Registered(effects, Main(r))
        /\ Len(calls[r]) > Len(calls[s])

Tracker(s) == <<"track", s>>

\* C11: when the handle of on(k, options) was invoked before the deferred
\* installation ran, then once the installation has run neither the watcher
\* nor a tracker of the subscription is in the registry, the watcher is
\* destroyed, no tracker was created, and the callback has never been invoked.
C11_EarlyCancel ==
    \A s \in Subs :
        (IsOn(s) /\ subs[s].destroyedBeforeCreate /\ subs[s].state # "pending")
        => /\ ~Registered(effects, Main(s))
           /\ ~Registered(effects, Tracker(s))
           /\ effState[Main(s)] = "destroyed"
           /\ effState[Tracker(s)] = "none"
           /\ calls[s] = <<>>

\* a subscription with an unsubscribeOn key, made before any emission, was
\* cancelled before its installation and its installation has run; the key
\* was emitted, another subscriber of the key was dispatched, and nothing is
\* left to run
C11_Witness ==
    \E s, r \in Subs :
        /\ s # r /\ subs[s].kind = "on" /\ subs[r].kind = "on"
        /\ subs[s].destroyedBeforeCreate /\ subs[s].state = "cancelled"
        /\ Len(subs[s].token) > 0
        /\ subs[s].calledAt = 0 /\ subs[r].activeAt = 0
        /\ calls[r] # <<>> /\ calls[s] = <<>>
        /\ ~AnyDirty(effState)

\* C12: after unsubscribe(k) no on/once subscriber of k made before the call
\* is invoked for a later emit of k, while the subscribers of another key and
\* the combineLatest subscriptions stay registered and live.
C12_UnsubscribeKey ==
    /\ \A s \in Subs : (IsOn(s) /\ subs[s].unsubAt >= 0) =>
          \A c \in 1..Len(calls[s]) : calls[s][c].n <= subs[s].unsubAt
    /\ \A s \in Subs :
          \/ subs[s].kind = "combine"
          \/ (subs[s].kind = "on" /\ subs[s].key # "login" /\ subs[s].state = "installed")
          => Registered(effects, Main(s)) /\ effState[Main(s)] # "destroyed"

\* a subscriber of on(k) that was installed and whose handle was not invoked
\* is registered and alive whatever was reset; it has been invoked for
\* emitted events of k only, never for the never-emitted value, and once its
\* watcher has nothing left to run, for the event the cell holds if it holds
\* one
C13_Live ==
    \A s \in Subs :
        (subs[s].kind = "on" /\ subs[s].state = "installed" /\ subs[s].handleAt = -1)
        => /\ Registered(effects, Main(s))
           /\ effState[Main(s)] # "destroyed"
           /\ \A i \in 1..Len(calls[s]) :
                 /\ calls[s][i].n \in 1..Len(emits)
                 /\ calls[s][i].key = subs[s].key
                 /\ emits[calls[s][i].n].key = subs[s].key
                 /\ calls[s][i].payload = emits[calls[s][i].n].payload
           /\ (effState[Main(s)] = "clean" /\ latest(events, subs[s].key) # Absent)
              => /\ calls[s] # <<>>
                 /\ LastOf(calls[s]).n = latest(events, subs[s].key).n

\* what a reset step does: resetEvent(k) leaves latest(k) and onToSignal(k)
\* absent and every other cell as it was, resetAllEvents() leaves them absent
\* for every key; either leaves the registry and the set of cells the same,
\* destroys no effect and invokes no callback
C13_ResetStep ==
    /\ \A k \in SubKeys : ResetEvent(k) =>
          /\ latest(events', k) = Absent
          /\ \A tr \in Transforms : onToSignal(events', k, tr) = Undefined
          /\ \A j \in Keys \ {k} : latest(events', j) = latest(events, j)
    /\ ResetAllEvents =>
          \A k \in Keys :
              /\ latest(events', k) = Absent
              /\ \A tr \in Transforms : onToSignal(events', k, tr) = Undefined
    /\ ((\E k \in SubKeys : ResetEvent(k)) \/ ResetAllEvents) =>
          /\ effects' = effects
          /\ DOMAIN events' = DOMAIN events
          /\ \A e \in EffIds : (effState'[e] = "destroyed") = (effState[e] = "destroyed")
          /\ calls' = calls

C14_CombinedDispatch ==
    \A s \in Subs : subs[s].kind = "combine" =>
        LET sources == subs[s].sources
            m == Len(sources)
        IN /\ Len(calls[s]) % m = 0
           /\ \A j \in 1..Len(calls[s]) :
                 LET i == ((j - 1) % m) + 1
                     c == calls[s][j]
                 IN /\ c.key = sources[i].key
                    /\ c.n \in 1..Len(emits)
                    /\ emits[c.n].key = sources[i].key
                    /\ c.payload = Transform(sources[i].transform, emits[c.n].payload)
                    /\ j > m => calls[s][j - m].n <= c.n
           /\ (effState[Main(s)] = "clean" /\ calls[s] # <<>>) =>
                 \A i \in 1..m :
                     calls[s][Len(calls[s]) - m + i].n = LastOf(KeyEmits(sources[i].key)).n

\* a combineLatest callback was invoked twice: for (login, logout) and, after
\* login emitted again with the payload undefined, for the new login and the
\* same logout, the latter transformed
C14_Witness ==
    \E s \in Subs :
        /\ subs[s].kind = "combine" /\ Len(calls[s]) = 4
        /\ calls[s][1].key = "login" /\ calls[s][1].payload = 1
        /\ calls[s][2].key = "logout" /\ calls[s][2].payload = 11
        /\ calls[s][3].key = "login" /\ calls[s][3].payload = Undefined
        /\ calls[s][3].n = 3
        /\ calls[s][4] = [calls[s][2] EXCEPT !.timestamp = calls[s][4].timestamp]

\* C15: after ngOnDestroy() no callback of a subscription made before it is
\* invoked for a later emit, no watcher of such a subscription is in the
\* registry, and every cell is gone: latest(k) is absent until k is emitted
\* again.
C15_FullTeardown ==
    \A s \in Subs : subs[s].tornDown =>
        /\ \A c \in 1..Len(calls[s]) : calls[s][c].n <= subs[s].clearedAt
        /\ ~Registered(effects, Main(s)) /\ ~Registered(effects, Tracker(s))
        /\ \A k \in Keys :
              latest(events, k) # Absent => latest(events, k).n > subs[s].clearedAt

\* the value of the view follows from the history of emits
C16_View ==
    \A k \in Keys, tr \in Transforms :
        LET v == onToSignal(events, k, tr) IN
        IF KeyEmits(k) = <<>> THEN v = Undefined /\ latest(events, k) = Absent
        ELSE /\ v = Transform(tr, LastOf(KeyEmits(k)).payload)
             /\ v = Transform(tr, latest(events, k).payload)

\* what creating or reading a view may change: it may create cells, which
\* then hold NOT_EMITTED
C16_ReadStep ==
    (\E k \in Keys : OnToSignal(k)) =>
        /\ \A k \in DOMAIN events : k \in DOMAIN events' /\ events'[k] = events[k]
        /\ \A k \in DOMAIN events' \ DOMAIN events : events'[k] = NOT_EMITTED
        /\ UNCHANGED <<effects, effState, calls, emits>>

\* C16: onToSignal(k, {transform}) is undefined while k has never emitted and
\* otherwise transform applied to the payload of latest(k) (the payload
\* itself without transform); creating or reading the view changes neither a
\* cell value nor the registry.
C16_OnToSignal == [](C16_View) /\ [][C16_ReadStep]_vars

\* a view was read on a key that never emitted, which created its cell; the
\* other key emitted twice, last with the payload undefined, and a watcher is
\* registered: the views are undefined, 10 with the transform, and undefined
C16_Witness ==
    /\ "logout" \in DOMAIN events /\ KeyEmits("logout") = <<>>
    /\ onToSignal(events, "logout", "plus10") = Undefined
    /\ Len(KeyEmits("login")) = 2
    /\ KeyEmits("login")[1].payload = 1
    /\ onToSignal(events, "login", "plus10") = 10
    /\ onToSignal(events, "login", "none") = Undefined
    /\ \E s \in Subs : Registered(effects, Main(s))

\* C17: constructing the engine without an injector argument and without an
\* injection context that supplies one fails with an error: no instance
\* exists and nothing can be done with it; no instance ever holds an absent
\* injector; with an argument or a supplying context the construction
\* succeeds, holds that injector, and starts with an empty store and an empty
\* registry.
C17_Construction ==
    /\ (host.arg = Null /\ host.context # "withInjector") <=> ~Constructed
    /\ Constructed =>
          /\ injector # Null
          /\ injector = (IF host.arg # Null THEN host.arg ELSE "env")
    /\ ~Constructed =>
          /\ events = <<>> /\ effects = <<>> /\ emits = <<>>
          /\ \A s \in Subs : subs[s] = NoSub
    /\ (emits = <<>> /\ \A s \in Subs : subs[s].kind = "none") =>
          /\ effects = <<>>
          /\ \A k \in DOMAIN events : events[k] = NOT_EMITTED

\* the constructor ran without an argument in an injection context that has
\* no EnvironmentInjector, and threw
C17_Witness ==
    /\ host = [arg |-> Null, context |-> "withoutInjector"]
    /\ injector = Thrown
    /\ ~Constructed

\* C18: for on(k, {unsubscribeOn: T}) with T event keys, whatever the tracked
\* cells held when the tracker was attached: once a tracked key has emitted
\* after the attach and nothing is left to run, the subscription is torn
\* down (neither watcher is registered, the main watcher is destroyed), and
\* it was dispatched no emit made after that.
C18_TrackedKeyTearsDown ==
    \A s \in Subs :
        ( /\ Attached(s)
          /\ ~AnyDirty(effState)
          /\ \E j \in 1..Len(subs[s].token), i \in 1..Len(emits) :
                emits[i].key = subs[s].token[j] /\ emits[i].n > subs[s].initial[j].n )
        => /\ ~Registered(effects, Main(s))
           /\ ~Registered(effects, Tracker(s))
           /\ effState[Main(s)] = "destroyed"

\* C19: for an on subscription with an unsubscribeOn tracker whose
\* installation has completed, the tracker watcher is in the registry exactly
\* when the main watcher is.
C19_TrackerWithMain ==
    \A s \in Subs :
        (subs[s].kind = "on" /\ Len(subs[s].token) > 0 /\ subs[s].state = "installed")
        => (Registered(effects, Tracker(s)) <=> Registered(effects, Main(s)))

\* C20: for once(k, {callback, unsubscribeOn: T}) with T an event key: when T
\* has emitted after the watcher was active and before any emit(k, .), and
\* nothing is left to run, the subscription is torn down and its callback
\* has not been invoked for any emit made from then on.
C20_OnceUnsubscribeOn ==
    \A s \in Subs :
        (subs[s].kind = "once" /\ subs[s].activeAt >= 0 /\ ~AnyDirty(effState))
        => \A i \in 1..Len(emits) :
              ( /\ \E j \in 1..Len(subs[s].unsubscribeOn) :
                      emits[i].key = subs[s].unsubscribeOn[j]
                /\ i > subs[s].activeAt
                /\ \A m \in (subs[s].calledAt + 1)..(i - 1) : emits[m].key # subs[s].key )
              => /\ ~Registered(effects, Main(s))
                 /\ \A c \in 1..Len(calls[s]) : calls[s][c].n < i

\* C21: a combineLatest callback that throws or returns a rejecting promise
\* is reported by the engine (at once for a throw, when the catch handler
\* runs for a rejection), the subscription stays registered and live, and
\* every subscription whose watcher has nothing left to run was invoked for
\* the latest events.
C21_CombineFailureIsolation ==
    \A s \in Subs : subs[s].kind = "combine" =>
        LET m == Len(subs[s].sources)
            invocations == Len(calls[s]) \div m
        IN /\ Registered(effects, Main(s)) /\ effState[Main(s)] # "destroyed"
           /\ CASE subs[s].cb = "throw" ->
                      reported[s] = invocations /\ pendingRej[s] = 0
                [] subs[s].cb = "reject" ->
                      reported[s] + pendingRej[s] = invocations
                [] OTHER -> reported[s] = 0 /\ pendingRej[s] = 0
           /\ ( /\ effState[Main(s)] = "clean"
                /\ \A i \in 1..m : KeyEmits(subs[s].sources[i].key) # <<>> )
              => /\ calls[s] # <<>>
                 /\ \A i \in 1..m :
                       calls[s][Len(calls[s]) - m + i].n
                          = LastOf(KeyEmits(subs[s].sources[i].key)).n

\* C22: for on(k, {unsubscribeOn: flag}): no emit(k, .) made after the flag
\* was set truthy is dispatched to the callback, and once nothing is left to
\* run the subscription is torn down; while the flag has not been truthy the
\* installed subscription stays registered.
C22_FlagTearsDown ==
    \A s \in Subs : (subs[s].kind = "on" /\ subs[s].token = FlagToken) =>
        /\ subs[s].flagAt >= 0 =>
              /\ \A c \in 1..Len(calls[s]) : calls[s][c].n <= subs[s].flagAt
              /\ (subs[s].state = "installed" /\ ~AnyDirty(effState))
                 => ~Registered(effects, Main(s)) /\ ~Registered(effects, Tracker(s))
        /\ (subs[s].flagAt = -1 /\ ~flag /\ subs[s].state = "installed")
              => Registered(effects, Main(s)) /\ Registered(effects, Tracker(s))

\* the subscriptions whose callbacks the DestroyRef invoked have no main
\* effect left, and received no emission made after the lifecycle ended
C23_TornDown ==
    \A s \in destroyRef.ran :
        /\ ~Registered(effects, Main(s))
        /\ effState[Main(s)] = "destroyed"
        /\ \A c \in 1..Len(calls[s]) : calls[s][c].n <= destroyRef.endedAt

\* the lifecycle ends when every registered callback belongs to a subscription
\* whose handle was invoked before: nothing of the engine changes
C23_LateCallback ==
    (/\ ~destroyRef.destroyed /\ destroyRef'.destroyed
     /\ destroyRef.callbacks # {}
     /\ \A s \in destroyRef.callbacks : subs[s].handleAt >= 0)
    => UNCHANGED <<events, effects, effState, subs, emits, calls, reported,
                   pendingRej>>

\* C23: for on(k, {unsubscribeOn: handle}) with a DestroyRef whose callback
\* was registered: when the lifecycle ends the main effect is destroyed and
\* taken out of the registry, and no emission made afterwards reaches the
\* callback; if the subscription had been unsubscribed by its handle before,
\* the callback changes nothing.
C23_DestroyRef == [](C23_TornDown) /\ [][C23_LateCallback]_vars

\* the lifecycle ended with two callbacks registered, one of a subscription
\* unsubscribed before and one of a subscription that had received an event;
\* the key was emitted again afterwards and every scheduled effect has run
C23_Witness ==
    \E s \in destroyRef.ran, t \in destroyRef.noop :
        /\ s \notin destroyRef.noop
        /\ Len(calls[s]) > 0
        /\ Len(emits) > destroyRef.endedAt
        /\ ~AnyDirty(effState)

\* C24: the first invocation of the callback of combineLatest() carries at
\* least one event emitted after combineLatest() was called: events all
\* emitted before the call are not delivered.
C24_CombineNoReplay ==
    \A s \in Subs : (subs[s].kind = "combine" /\ Len(calls[s]) > 0) =>
        \E i \in 1..Len(subs[s].sources) : calls[s][i].n > subs[s].calledAt

\* after the handle of combineLatest() was invoked the callback is not
\* invoked again, the effect is destroyed and not registered, and invoking
\* the handle once more would change nothing
C25_Stopped ==
    \A s \in Subs : (subs[s].kind = "combine" /\ subs[s].handleAt >= 0) =>
        /\ Len(calls[s]) = subs[s].handleAt
        /\ effState[Main(s)] = "destroyed"
        /\ ~Registered(effects, Main(s))
        /\ unsubscribeCombine(World, s) = World

\* the step that invokes the handle of a combineLatest() subscription for the
\* first time leaves the effect of every other subscription as it was, in
\* the registry or not
C25_OnlyItsOwn ==
    \A s \in Subs :
        (subs[s].kind = "combine" /\ subs[s].handleAt = -1 /\ subs'[s].handleAt >= 0)
        => \A t \in Subs \ {s} :
              /\ effState'[Main(t)] = effState[Main(t)]
              /\ Registered(effects', Main(t)) <=> Registered(effects, Main(t))

\* C25: the handle combineLatest() returns removes the one effect registered
\* under the composite key of its subscription: the callback is never invoked
\* again, further invocations change nothing, and no on() subscription and no
\* other combineLatest() subscription is destroyed or taken out of the registry.
C25_CombineHandle == [](C25_Stopped) /\ [][C25_OnlyItsOwn]_vars

\* a combineLatest() subscription that had been invoked was stopped by its
\* handle; a second one over the same sources is still registered and has
\* since been invoked with a later emission, and nothing is left to run
C25_Witness ==
    \E s \in Subs, t \in Subs :
        /\ subs[s].kind = "combine" /\ subs[s].handleAt > 0
        /\ subs[t].kind = "combine" /\ subs[t].handleAt = -1
        /\ subs[t].sources = subs[s].sources
        /\ Registered(effects, Main(t))
        /\ ~AnyDirty(effState)
        /\ \E c \in 1..Len(calls[t]) :
              \A d \in 1..Len(calls[s]) : calls[t][c].n > calls[s][d].n

\* on() whose unsubscribeOn is a key, then once(), both on one key
OnThenOnce ==
    \/ On(1, "login", "none", <<"login">>, "ok")
    \/ Once(2, "login", "none", "ok")

\* Every way an effect leaves the registry: the handles, once() firing, the
\* tracker of a key, unsubscribe(key), clearSubscriptions(), ngOnDestroy().
NextRegistry ==
    \/ Emit("login", 1, 0)
    \/ OnThenOnce
    \/ \E s \in Subs : Install(s)
    \/ \E s \in Subs : Handle(s)
    \/ Unsubscribe("login")
    \/ ClearSubscriptions
    \/ NgOnDestroy
    \/ \E e \in EffIds : RunEffect(e, 0)

SpecRegistry == InitNoWrites /\ [][NextRegistry]_vars

\* the places (key, index) at which effect e is listed in the registry
ListedAt(e) ==
    {p \in (DOMAIN effects) \X (1..(2 * MaxSubs)) :
        p[2] <= Len(effects[p[1]]) /\ effects[p[1]][p[2]] = e}

\* C26: in every reachable state an effect is listed in the registry exactly
\* when it was created and has not been destroyed; it is listed once, under
\* one key; and no key of the registry has an empty list.
C26_RegistryConsistent ==
    /\ \A e \in EffIds :
          /\ Registered(effects, e) <=> (effState[e] \in {"clean", "dirty"})
          /\ Cardinality(ListedAt(e)) <= 1
    /\ \A rk \in DOMAIN effects : Len(effects[rk]) > 0

\* the tracker of the first subscription has torn it down (no handle, no
\* clearSubscriptions() was involved) while the effect of a second
\* subscription stays registered
C26_Witness ==
    /\ effState[Tracker(1)] = "destroyed" /\ effState[Main(1)] = "destroyed"
    /\ subs[1].handleAt = -1 /\ subs[1].clearedAt = -1
    /\ Registered(effects, Main(2))
    /\ DOMAIN effects = {EventKey("login")}

\* emit(key, 1) as the first emission of the engine
EmitFirst(k) == emits = <<>> /\ Emit(k, 1, 0)

\* The operations the frame of the store speaks about: emit (one key emitted
\* first, the other any number of times), latest, on, once, combineLatest, the
\* handles, unsubscribe(key), clearSubscriptions().
NextFrame ==
    \/ Emit("login", 1, 0)
    \/ EmitFirst("logout")
    \/ Latest("expire")
    \/ On(1, "login", "none", <<>>, "ok")
    \/ Once(2, "login", "none", "ok")
    \/ \E sources \in SourceLists : CombineLatest(2, sources, "ok")
    \/ \E s \in Subs : Install(s)
    \/ \E s \in Subs : Handle(s)
    \/ Unsubscribe("login")
    \/ ClearSubscriptions
    \/ \E e \in EffIds : RunEffect(e, 0)
    \/ \E e \in EffIds : RunEffectLater(e)

SpecFrame == InitNoWrites /\ [][NextFrame]_vars

\* what the cell of key k holds; a cell not created yet counts as never emitted
Cell(ev, k) == IF k \in DOMAIN ev THEN ev[k] ELSE NOT_EMITTED

C27_FrameStep ==
    /\ DOMAIN events \subseteq DOMAIN events'
    /\ emits' # emits =>
          LET event == emits'[Len(emits')] IN
          /\ Cell(events', event.key) = event
          /\ \A k \in Keys \ {event.key} : Cell(events', k) = Cell(events, k)
          /\ effects' = effects
    /\ emits' = emits => \A k \in Keys : Cell(events', k) = Cell(events, k)

\* C27: emit(k, p) puts the new event into the cell of k and leaves every
\* other cell and the registry as they were; every other step (on, once,
\* combineLatest, a handle, unsubscribe(key), clearSubscriptions(), latest(key),
\* a run of an effect) leaves the value of every cell as it was and at most
\* creates cells that hold the never-emitted value.
C27_Frame == [][C27_FrameStep]_vars

\* one key was emitted again after another key had emitted, the cell of the
\* third was created by a read and holds the never-emitted value, a handle
\* was invoked and an effect is still registered
C27_Witness ==
    /\ DOMAIN events = Keys
    /\ events["login"].n > 2
    /\ events["logout"].n = 1 /\ events["expire"] = NOT_EMITTED
    /\ \E s \in Subs : subs[s].handleAt >= 0
    /\ DOMAIN effects # {}

\* C28: when emit(k, p) has returned, every subscription of on(k) that was
\* installed before the call and is still registered has been invoked with
\* that event.
C28_SynchronousDispatch ==
    \A s \in Subs :
        (/\ subs[s].kind = "on" /\ subs[s].state = "installed"
         /\ Registered(effects, Main(s))
         /\ Cell(events, subs[s].key) # NOT_EMITTED
         /\ subs[s].activeAt >= 0
         /\ subs[s].activeAt < Cell(events, subs[s].key).n)
        => \E c \in 1..Len(calls[s]) : calls[s][c].n = events[subs[s].key].n

\* The deferred installation of on(): on(), the handle, the microtask that
\* installs, one emission and effect runs.  The microtask queue is drained after
\* the running task and the runtime runs every scheduled effect, so an
\* installation or an effect run that stays possible is taken.
NextInstall ==
    \/ EmitFirst("login")
    \/ \E s \in Subs : On(s, "login", "none", <<>>, "ok")
    \/ \E s \in Subs : Install(s)
    \/ \E s \in Subs : Handle(s)
    \/ \E e \in EffIds : RunEffect(e, 0)

SpecInstall ==
    /\ InitNoWrites /\ [][NextInstall]_vars
    /\ \A s \in Subs : WF_vars(Install(s))
    /\ \A e \in EffIds : WF_vars(RunEffect(e, 0))

\* a subscription of on() is pending, installed or cancelled; a cancelled one
\* has nothing in the registry
C29_States ==
    \A s \in Subs : subs[s].kind = "on" =>
        /\ subs[s].state \in {"pending", "installed", "cancelled"}
        /\ subs[s].state = "cancelled" =>
              ~Registered(effects, Main(s)) /\ ~Registered(effects, Tracker(s))

\* on() returns a pending subscription; the installation takes a pending
\* subscription to installed, with its effect in the registry, exactly when
\* the handle was not invoked before, and to cancelled otherwise; an installed
\* or cancelled subscription keeps its state
C29_Transitions ==
    \A s \in Subs :
        /\ (subs[s].kind = "none" /\ subs'[s].kind = "on") => subs'[s].state = "pending"
        /\ (subs[s].state = "pending" /\ subs'[s].state # "pending") =>
              IF subs[s].handleAt = -1
              THEN subs'[s].state = "installed" /\ Registered(effects', Main(s))
              ELSE subs'[s].state = "cancelled" /\ ~Registered(effects', Main(s))
        /\ subs[s].state \in {"installed", "cancelled"} => subs'[s].state = subs[s].state

C29_LeavesPending ==
    \A s \in Subs : (subs[s].state = "pending") ~> (subs[s].state # "pending")

\* C29: a subscription of on() starts pending; the deferred installation
\* takes it to installed (effect registered, handle not invoked before) or to
\* cancelled (handle invoked before, nothing registered), never to both and
\* never from one to the other; and every pending subscription eventually
\* leaves pending.
C29_InstallMachine ==
    [](C29_States) /\ [][C29_Transitions]_vars /\ C29_LeavesPending

\* two subscriptions have left pending, one installed and dispatched, one
\* cancelled by its handle before the installation ran
C29_Witness ==
    \E s, t \in Subs :
        /\ subs[s].kind = "on" /\ subs[s].state = "installed" /\ calls[s] # <<>>
        /\ subs[t].kind = "on" /\ subs[t].state = "cancelled"
        /\ subs[t].handleAt >= 0 /\ calls[t] = <<>>
        /\ ~AnyDirty(effState)

\* Last-value delivery: emissions of one key at different times, on() without
\* transform, effect runs that fall behind the emissions, at the instant of
\* the emission or later.
NextLast ==
    \/ \E dt \in {0, 1} : Emit("login", 1, dt)
    \/ \E s \in Subs : On(s, "login", "none", <<>>, "ok")
    \/ \E s \in Subs : Install(s)
    \/ \E e \in EffIds, dt \in {0, 1} : RunEffect(e, dt)

SpecLast == InitNoWrites /\ [][NextLast]_vars

\* no event a subscriber of on() has received is older than one it received
\* before
C30_InOrder ==
    \A s \in Subs : subs[s].kind = "on" =>
        \A c \in 1..Len(calls[s]), d \in 1..Len(calls[s]) :
            c < d => calls[s][c].n <= calls[s][d].n

\* the event a run of the main effect dispatches is the one the cell of the
\* key held when the run began, with its key and timestamp
C30_FromCell ==
    \A s \in Subs :
        (subs[s].kind = "on" /\ Len(calls'[s]) > Len(calls[s])) =>
            LET evt == calls'[s][Len(calls'[s])]
                held == latest(events, subs[s].key)
            IN /\ Len(calls'[s]) = Len(calls[s]) + 1
               /\ evt.key = held.key /\ evt.timestamp = held.timestamp
               /\ evt.n = held.n
               /\ held = LastOf(KeyEmits(subs[s].key))

\* C30: every event a main effect of on(k) dispatches is the event the cell
\* of k holds when the effect runs (key and timestamp those of latest(k)), so
\* a subscriber receives events in the order of emission and never one that
\* had been overwritten before the effect ran.
C30_LastValue == [](C30_InOrder) /\ [][C30_FromCell]_vars

\* a subscriber that ran before any emission has received the third emission
\* and not the second, which was overwritten before the effect ran
C30_Witness ==
    \E s \in Subs :
        /\ subs[s].kind = "on" /\ subs[s].activeAt = 0
        /\ \E c \in 1..Len(calls[s]) : calls[s][c].n = 3 /\ calls[s][c].timestamp = 1
        /\ \A c \in 1..Len(calls[s]) : calls[s][c].n # 2

====
